---- MODULE Spec2Model ----
(***************************************************************************)
(* Model of SimpleBlog's application bootstrap (main.py: create_app, the   *)
(* module-level app binding and the __main__ block), of the request path   *)
(* through the application that create_app builds, and of the Artigo       *)
(* record (model/artigo_model.py).                                         *)
(***************************************************************************)
EXTENDS Integers, Sequences, FiniteSets, TLC

\* ---------------------------------------------------------------- bounds
MaxRequests == 2
MaxArtigos == 1

\* ------------------------------------------------- constants of main.py
\* main.py:72-73, in registration order
MiddlewareRegs == <<"SessionMiddleware", "MiddlewareProtecaoCSRF">>

\* the registrations without the one of Exception
HandlerRegs_NoGeneric ==
  << <<"StarletteHTTPException", "http_exception_handler">>,
     <<"RequestValidationError", "validation_exception_handler">>,
     <<"ErroValidacaoFormulario", "form_validation_exception_handler">> >>

\* main.py:79-82, in registration order: <<exception class, handler>>
HandlerRegs ==
  << <<"StarletteHTTPException", "http_exception_handler">>,
     <<"RequestValidationError", "validation_exception_handler">>,
     <<"ErroValidacaoFormulario", "form_validation_exception_handler">>,
     <<"Exception", "generic_exception_handler">> >>

\* the calls of the try block with criar_indices() after the last table
DbSteps_IndicesLast ==
  <<"usuario", "configuracao", "chamado", "chamado_interacao", "chat_sala",
    "chat_participante", "chat_mensagem", "categoria", "artigo", "indices",
    "seed">>

\* main.py:102-114, the calls of the try block in program order
DbSteps ==
  <<"usuario", "configuracao", "chamado", "chamado_interacao", "chat_sala",
    "chat_participante", "chat_mensagem", "indices", "categoria", "artigo",
    "seed">>

\* the repositories whose criar_tabela() is called (main.py:102-108,110-111)
Tables ==
  {"usuario", "configuracao", "chamado", "chamado_interacao", "chat_sala",
   "chat_participante", "chat_mensagem", "categoria", "artigo"}

\* main.py:123-136
Routers ==
  <<"auth", "chamados", "admin_usuarios", "admin_config", "admin_backups",
    "admin_chamados", "usuario", "chat", "public", "examples",
    "admin_categorias", "artigos">>

\* model/artigo_model.py:7-11, the values of the enumeration
StatusArtigo == {"Rascunho", "Finalizado", "Publicado", "Pausado"}

VARIABLES
  mode,          \* how the process was started: "script" (python main.py) or "uvicorn" (uvicorn main:app)
  static_exists, \* Path("static").exists()
  sys_modules,   \* names under which main.py has been loaded in this process
  cur,           \* the module whose body is executing (its __name__)
  pc,            \* position in the module body / create_app
  i,             \* index in the list the current step iterates over
  app,           \* the local app object of the running create_app
  bound,         \* module-level name `app` of each module
  db,            \* the relational store
  called,        \* calls of the try block completed by the running create_app
  runs,          \* number of create_app invocations in the process
  exc,           \* the exception propagating out of create_app
  logged,        \* logger.error / logger.warning records
  req,           \* the request in flight
  served,        \* number of requests completed
  artigos        \* Artigo instances, by id

vars == <<mode, static_exists, sys_modules, cur, pc, i, app, bound, db, called,
          runs, exc, logged, req, served, artigos>>

boot == <<mode, static_exists, sys_modules, cur, pc, i, app, bound, db, called,
          runs, exc, logged>>

NoApp == [user_middleware |-> <<>>, exception_handlers |-> <<>>,
          routes |-> <<"unbound">>]

NoExc == [step |-> "none"]

NoReq == [pc |-> "idle", target |-> "none", faultAt |-> "none",
          cls |-> "none", k |-> 0, trace |-> <<>>, route |-> "none",
          raised |-> "none", raisedAt |-> "none", handledBy |-> <<>>,
          response |-> [sent |-> FALSE, by |-> "none", body |-> <<>>]]

\* ------------------------------------------------ the framework's calls
\* FastAPI(title=..., version=...): the default handlers FastAPI installs,
\* no user middleware, no route added by main.py yet
NewFastAPI ==
  [user_middleware |-> <<>>,
   exception_handlers |->
     ("StarletteHTTPException" :> "fastapi.http_exception_handler") @@
     ("RequestValidationError" :> "fastapi.request_validation_exception_handler"),
   routes |-> <<>>]

\* app.add_middleware(m): the newest middleware goes to the front of
\* user_middleware, i.e. becomes the outermost of the user middlewares
add_middleware(a, m) ==
  [a EXCEPT !.user_middleware = <<m>> \o @]

\* app.add_exception_handler(cls, h): exception_handlers[cls] = h
add_exception_handler(a, cls, h) ==
  [a EXCEPT !.exception_handlers = (cls :> h) @@ @]

\* app.mount(path, ...), app.include_router(r), @app.get(path): each appends
\* to the route table
add_route(a, r) ==
  [a EXCEPT !.routes = Append(@, r)]

\* effect of one call of the try block on the store
ApplyDbStep(d, s) ==
  IF s \in Tables THEN [d EXCEPT !.tables = @ \cup {s}]
  ELSE IF s = "indices" THEN [d EXCEPT !.indices = TRUE]
  ELSE [d EXCEPT !.seeds = @ + 1]

\* ------------------------------------------------------------------ Init
Init ==
  /\ mode \in {"script", "uvicorn"}
  /\ static_exists \in BOOLEAN
  /\ cur = IF mode = "script" THEN "__main__" ELSE "main"
  /\ sys_modules = {cur}
  /\ pc = "create_app"
  /\ i = 0
  /\ app = NoApp
  /\ bound = [m \in {"__main__", "main"} |-> NoApp]
  /\ db = [tables |-> {}, indices |-> FALSE, seeds |-> 0]
  /\ called = <<>>
  /\ runs = 0
  /\ exc = NoExc
  /\ logged = <<>>
  /\ req = NoReq
  /\ served = 0
  /\ artigos = <<>>

\* ------------------------------------------------------------ create_app
\* main.py:67
CreateFastAPI ==
  /\ pc = "create_app"
  /\ app' = NewFastAPI
  /\ runs' = runs + 1
  /\ called' = <<>>
  /\ pc' = "middleware"
  /\ i' = 1
  /\ UNCHANGED <<mode, static_exists, sys_modules, cur, bound, db, exc, logged,
                 req, served, artigos>>

\* main.py:72-73
AddMiddleware ==
  /\ pc = "middleware"
  /\ app' = add_middleware(app, MiddlewareRegs[i])
  /\ IF i < Len(MiddlewareRegs)
       THEN /\ i' = i + 1
            /\ pc' = pc
       ELSE /\ i' = 1
            /\ pc' = "handlers"
  /\ UNCHANGED <<mode, static_exists, sys_modules, cur, bound, db, called, runs,
                 exc, logged, req, served, artigos>>

\* main.py:79-82
AddExceptionHandler ==
  /\ pc = "handlers"
  /\ app' = add_exception_handler(app, HandlerRegs[i][1], HandlerRegs[i][2])
  /\ IF i < Len(HandlerRegs)
       THEN /\ i' = i + 1
            /\ pc' = pc
       ELSE /\ i' = 0
            /\ pc' = "static"
  /\ UNCHANGED <<mode, static_exists, sys_modules, cur, bound, db, called, runs,
                 exc, logged, req, served, artigos>>

\* a create_app that returns at once when the static directory is missing
MountStatic_EarlyReturn ==
  /\ pc = "static"
  /\ IF static_exists
       THEN /\ app' = add_route(app, "/static")
            /\ logged' = logged
            /\ pc' = "db"
       ELSE /\ app' = app
            /\ logged' = Append(logged, "static nao encontrado")
            /\ pc' = "return"
  /\ i' = 1
  /\ UNCHANGED <<mode, static_exists, sys_modules, cur, bound, db, called, runs,
                 exc, req, served, artigos>>

\* main.py:88-95
MountStatic ==
  /\ pc = "static"
  /\ IF static_exists
       THEN /\ app' = add_route(app, "/static")
            /\ logged' = logged
       ELSE /\ app' = app
            /\ logged' = Append(logged, "static nao encontrado")
  /\ pc' = "db"
  /\ i' = 1
  /\ UNCHANGED <<mode, static_exists, sys_modules, cur, bound, db, called, runs,
                 exc, req, served, artigos>>

\* a try block that leaves before its last call, inicializar_dados()
DbStepOk_SkipsSeed ==
  /\ pc = "db"
  /\ db' = ApplyDbStep(db, DbSteps[i])
  /\ called' = Append(called, DbSteps[i])
  /\ IF i < Len(DbSteps) - 1
       THEN /\ i' = i + 1
            /\ pc' = pc
       ELSE /\ i' = 1
            /\ pc' = "routers"
  /\ UNCHANGED <<mode, static_exists, sys_modules, cur, app, bound, runs, exc,
                 logged, req, served, artigos>>

\* main.py:102-115, one call of the try block returning normally
DbStepOk ==
  /\ pc = "db"
  /\ db' = ApplyDbStep(db, DbSteps[i])
  /\ called' = Append(called, DbSteps[i])
  /\ IF i < Len(DbSteps)
       THEN /\ i' = i + 1
            /\ pc' = pc
       ELSE /\ i' = 1
            /\ pc' = "routers"
  /\ UNCHANGED <<mode, static_exists, sys_modules, cur, app, bound, runs, exc,
                 logged, req, served, artigos>>

\* an except clause that logs and does not re-raise
DbStepRaises_Swallowed ==
  /\ pc = "db"
  /\ exc' = [step |-> DbSteps[i]]
  /\ logged' = Append(logged, "Erro ao preparar banco de dados: " \o DbSteps[i])
  /\ pc' = "routers"
  /\ i' = 1
  /\ UNCHANGED <<mode, static_exists, sys_modules, cur, app, bound, db,
                 called, runs, req, served, artigos>>

\* main.py:116-118, one call of the try block raising: log, re-raise
DbStepRaises ==
  /\ pc = "db"
  /\ exc' = [step |-> DbSteps[i]]
  /\ logged' = Append(logged, "Erro ao preparar banco de dados: " \o DbSteps[i])
  /\ pc' = "raised"
  /\ UNCHANGED <<mode, static_exists, sys_modules, cur, i, app, bound, db,
                 called, runs, req, served, artigos>>

\* main.py:137-141
IncludeRouter ==
  /\ pc = "routers"
  /\ app' = add_route(app, Routers[i])
  /\ IF i < Len(Routers)
       THEN /\ i' = i + 1
            /\ pc' = pc
       ELSE /\ i' = 0
            /\ pc' = "health"
  /\ UNCHANGED <<mode, static_exists, sys_modules, cur, bound, db, called, runs,
                 exc, logged, req, served, artigos>>

\* main.py:146-148
RegisterHealth ==
  /\ pc = "health"
  /\ app' = add_route(app, "/health")
  /\ pc' = "return"
  /\ UNCHANGED <<mode, static_exists, sys_modules, cur, i, bound, db, called,
                 runs, exc, logged, req, served, artigos>>

\* main.py:151 and main.py:157: return app; app = create_app()
ReturnApp ==
  /\ pc = "return"
  /\ bound' = [bound EXCEPT ![cur] = app]
  /\ pc' = "main_guard"
  /\ UNCHANGED <<mode, static_exists, sys_modules, cur, i, app, db, called,
                 runs, exc, logged, req, served, artigos>>

\* ------------------------------------------------- module body, __main__
\* main.py:162: the block runs only in the module named __main__; the module
\* imported as "main" is complete here and the server that imported it serves
MainGuard ==
  /\ pc = "main_guard"
  /\ pc' = IF cur = "__main__" THEN "uvicorn_run" ELSE "serving"
  /\ UNCHANGED <<mode, static_exists, sys_modules, cur, i, app, bound, db,
                 called, runs, exc, logged, req, served, artigos>>

\* main.py:171-177: uvicorn.run("main:app") imports the module named "main";
\* a module not in sys.modules under that name has its body executed
UvicornRun ==
  /\ pc = "uvicorn_run"
  /\ IF "main" \in sys_modules
       THEN /\ pc' = "serving"
            /\ UNCHANGED <<sys_modules, cur>>
       ELSE /\ sys_modules' = sys_modules \cup {"main"}
            /\ cur' = "main"
            /\ pc' = "create_app"
  /\ UNCHANGED <<mode, static_exists, i, app, bound, db, called, runs, exc,
                 logged, req, served, artigos>>

\* the exception of main.py:118 leaves create_app and the module body; in the
\* module imported by uvicorn.run it reaches main.py:180-182 (log, re-raise)
Propagate ==
  /\ pc = "raised"
  /\ logged' = IF cur = "main" /\ mode = "script"
                 THEN Append(logged, "Erro ao iniciar servidor: " \o exc.step)
                 ELSE logged
  /\ pc' = "exited"
  /\ UNCHANGED <<mode, static_exists, sys_modules, cur, i, app, bound, db,
                 called, runs, exc, req, served, artigos>>

\* main.py:178-179
KeyboardInterrupt ==
  /\ pc = "serving"
  /\ mode = "script"
  /\ req.pc = "idle"
  /\ logged' = Append(logged, "Servidor encerrado pelo usuario")
  /\ pc' = "exited"
  /\ UNCHANGED <<mode, static_exists, sys_modules, cur, i, app, bound, db,
                 called, runs, exc, req, served, artigos>>

\* ------------------------------------------------------- request path
\* the application uvicorn serves: the name `app` of the module "main"
ServedApp == bound["main"]

\* the middleware stack of an application, outermost first: the framework's
\* error middleware, the user middlewares, the framework's exception
\* middleware; the router is inside all of them
Stack(a) ==
  <<"ServerErrorMiddleware">> \o a.user_middleware \o <<"ExceptionMiddleware">>

\* the classes a request can throw, with their method resolution order
ExcClasses ==
  {"ErroValidacaoFormulario", "RequestValidationError",
   "StarletteHTTPException", "HTTPException", "ValueError"}

Mro(c) ==
  CASE c = "ErroValidacaoFormulario" -> <<"ErroValidacaoFormulario", "Exception">>
    [] c = "RequestValidationError" -> <<"RequestValidationError", "Exception">>
    [] c = "StarletteHTTPException" -> <<"StarletteHTTPException", "Exception">>
    [] c = "HTTPException" ->
         <<"HTTPException", "StarletteHTTPException", "Exception">>
    [] OTHER -> <<c, "Exception">>

\* the handlers the exception middleware holds: every registered handler but
\* the one of Exception, which is given to the error middleware
MiddlewareHandlers(a) ==
  [c \in (DOMAIN a.exception_handlers) \ {"Exception"} |->
     a.exception_handlers[c]]

\* the error middleware's handler: the one registered for Exception, or the
\* framework's plain 500 response
ErrorHandler(a) ==
  IF "Exception" \in DOMAIN a.exception_handlers
    THEN a.exception_handlers["Exception"]
    ELSE "starlette.error_response"

\* a lookup by exact class only
lookup_handler_exact(handlers, c) ==
  IF c \in DOMAIN handlers THEN handlers[c] ELSE "none"

\* the handler of the first class of the exception's MRO that has one
lookup_handler(handlers, c) ==
  LET hits == SelectSeq(Mro(c), LAMBDA k : k \in DOMAIN handlers)
  IN IF hits = <<>> THEN "none" ELSE handlers[hits[1]]

\* the first route of the table that matches the path
MatchRoute(a, target) ==
  LET hits == SelectSeq(a.routes, LAMBDA r : r = target)
  IN IF hits = <<>> THEN "none" ELSE hits[1]

RouterNames == {Routers[n] : n \in 1..Len(Routers)}

Targets == {"/health", "/static", "/nope", Routers[Len(Routers)]}

FaultSites == {"none", "handler"} \cup {MiddlewareRegs[n] : n \in 1..Len(MiddlewareRegs)}

NoResponse == [sent |-> FALSE, by |-> "none", body |-> <<>>]

\* a request arrives at the served application
Receive ==
  /\ pc = "serving"
  /\ req.pc \in {"idle", "done"}
  /\ served < MaxRequests
  /\ \E target \in Targets, faultAt \in FaultSites, cls \in ExcClasses \cup {"none"} :
       /\ (faultAt = "none") <=> (cls = "none")
       /\ (faultAt = "handler") => (target \in RouterNames)
       /\ req' = [pc |-> "stack", target |-> target, faultAt |-> faultAt,
                  cls |-> cls, k |-> 1, trace |-> <<>>, route |-> "none",
                  raised |-> "none", raisedAt |-> "none", handledBy |-> <<>>,
                  response |-> NoResponse]
  /\ UNCHANGED <<boot, served, artigos>>

\* the request enters the next layer of the stack, which may throw
EnterLayer ==
  /\ req.pc = "stack"
  /\ LET layer == Stack(ServedApp)[req.k]
     IN IF layer = req.faultAt
          THEN req' = [req EXCEPT !.trace = Append(@, layer),
                                  !.raised = req.cls, !.raisedAt = layer,
                                  !.pc = "unwind", !.k = req.k - 1]
          ELSE IF req.k < Len(Stack(ServedApp))
            THEN req' = [req EXCEPT !.trace = Append(@, layer), !.k = @ + 1]
            ELSE req' = [req EXCEPT !.trace = Append(@, layer), !.pc = "route"]
  /\ UNCHANGED <<boot, served, artigos>>

\* the router picks the route; no match is a 404 HTTP exception
Dispatch ==
  /\ req.pc = "route"
  /\ LET r == MatchRoute(ServedApp, req.target)
     IN IF r = "none"
          THEN req' = [req EXCEPT !.trace = Append(@, "router"),
                                  !.raised = "StarletteHTTPException",
                                  !.raisedAt = "router", !.pc = "unwind",
                                  !.k = Len(Stack(ServedApp))]
          ELSE req' = [req EXCEPT !.trace = Append(@, "router"),
                                  !.route = r, !.pc = "handler"]
  /\ UNCHANGED <<boot, served, artigos>>

\* a health check that writes to the store
health_check_writes ==
  /\ req.pc = "handler"
  /\ req.route = "/health"
  /\ req' = [req EXCEPT !.response = [sent |-> TRUE, by |-> "health_check",
                                      body |-> <<"status", "healthy">>],
                        !.pc = "respond"]
  /\ db' = [db EXCEPT !.indices = FALSE]
  /\ UNCHANGED <<mode, static_exists, sys_modules, cur, pc, i, app, bound,
                 called, runs, exc, logged, served, artigos>>

\* main.py:146-148
health_check ==
  /\ req.pc = "handler"
  /\ req.route = "/health"
  /\ req' = [req EXCEPT !.response = [sent |-> TRUE, by |-> "health_check",
                                      body |-> <<"status", "healthy">>],
                        !.pc = "respond"]
  /\ UNCHANGED <<boot, served, artigos>>

\* a handler of a router or of the static mount: it answers or throws
RunHandler ==
  /\ req.pc = "handler"
  /\ req.route # "/health"
  /\ IF req.faultAt = "handler"
       THEN req' = [req EXCEPT !.raised = req.cls, !.raisedAt = "handler",
                               !.pc = "unwind", !.k = Len(Stack(ServedApp))]
       ELSE req' = [req EXCEPT !.response = [sent |-> TRUE, by |-> req.route,
                                             body |-> <<"page", req.route>>],
                               !.pc = "respond"]
  /\ UNCHANGED <<boot, served, artigos>>

\* the exception middleware: a handler registered for a class of the
\* exception answers; otherwise the exception goes on outwards
ExceptionMiddlewareCatch ==
  /\ req.pc = "unwind"
  /\ Stack(ServedApp)[req.k] = "ExceptionMiddleware"
  /\ LET h == lookup_handler(MiddlewareHandlers(ServedApp), req.raised)
     IN IF h = "none"
          THEN req' = [req EXCEPT !.k = @ - 1]
          ELSE req' = [req EXCEPT !.handledBy = Append(@, h),
                                  !.response = [sent |-> TRUE, by |-> h,
                                                body |-> <<"error", req.raised>>],
                                  !.pc = "respond"]
  /\ UNCHANGED <<boot, served, artigos>>

\* a user middleware lets the exception through
MiddlewarePassExc ==
  /\ req.pc = "unwind"
  /\ Stack(ServedApp)[req.k] \notin {"ExceptionMiddleware", "ServerErrorMiddleware"}
  /\ req' = [req EXCEPT !.k = @ - 1]
  /\ UNCHANGED <<boot, served, artigos>>

\* the error middleware answers with the handler of Exception
ServerErrorCatch ==
  /\ req.pc = "unwind"
  /\ Stack(ServedApp)[req.k] = "ServerErrorMiddleware"
  /\ LET h == ErrorHandler(ServedApp)
     IN req' = [req EXCEPT !.handledBy = Append(@, h),
                           !.response = [sent |-> TRUE, by |-> h,
                                         body |-> <<"error", req.raised>>],
                           !.pc = "respond"]
  /\ UNCHANGED <<boot, served, artigos>>

\* the response leaves the server
Finish ==
  /\ req.pc = "respond"
  /\ req' = [req EXCEPT !.pc = "done"]
  /\ served' = served + 1
  /\ UNCHANGED <<boot, artigos>>

\* ---------------------------------------------------------------- Artigo
\* the strings a caller can pass as status (the field is annotated str)
StatusValues == StatusArtigo \cup {"Arquivado"}

\* model/artigo_model.py:14-31, the generated __init__ with its defaults
Artigo(id, titulo, conteudo, status, usuario_id, categoria_id) ==
  [id |-> id, titulo |-> titulo, conteudo |-> conteudo, status |-> status,
   usuario_id |-> usuario_id, categoria_id |-> categoria_id,
   resumo |-> "None", qtde_visualizacoes |-> 0, data_cadastro |-> "None",
   data_atualizacao |-> "None", data_publicacao |-> "None",
   data_pausa |-> "None", usuario_nome |-> "None", usuario_email |-> "None",
   categoria_nome |-> "None"]

\* an Artigo is constructed
NovoArtigo ==
  /\ pc = "serving"
  /\ Len(artigos) < MaxArtigos
  /\ \E status \in StatusValues :
       artigos' = Append(artigos,
                         Artigo(Len(artigos) + 1, "titulo", "conteudo", status, 1, 1))
  /\ UNCHANGED <<boot, req, served>>

\* artigo.status = ... on an existing instance (the dataclass is not frozen)
AtribuirStatus ==
  /\ pc = "serving"
  /\ \E n \in 1..Len(artigos), status \in StatusValues :
       /\ artigos[n].status # status
       /\ artigos' = [artigos EXCEPT ![n].status = status]
  /\ UNCHANGED <<boot, req, served>>

Next ==
  \/ CreateFastAPI
  \/ AddMiddleware
  \/ AddExceptionHandler
  \/ MountStatic
  \/ DbStepOk
  \/ DbStepRaises
  \/ IncludeRouter
  \/ RegisterHealth
  \/ ReturnApp
  \/ MainGuard
  \/ UvicornRun
  \/ Propagate
  \/ KeyboardInterrupt
  \/ Receive
  \/ EnterLayer
  \/ Dispatch
  \/ health_check
  \/ RunHandler
  \/ ExceptionMiddlewareCatch
  \/ MiddlewarePassExc
  \/ ServerErrorCatch
  \/ Finish
  \/ NovoArtigo
  \/ AtribuirStatus

Spec == Init /\ [][Next]_vars

\* ================================================================ claims
IsBound(m) == bound[m].routes # <<"unbound">>

IncludedRouters(a) == SelectSeq(a.routes, LAMBDA r : r \in RouterNames)

Occurrences(seq, x) == Cardinality({n \in 1..Len(seq) : seq[n] = x})

\* position of the first occurrence of x in seq, 0 when absent
IndexOf(seq, x) ==
  IF \E n \in 1..Len(seq) : seq[n] = x
    THEN CHOOSE n \in 1..Len(seq) :
           seq[n] = x /\ \A m \in 1..(n - 1) : seq[m] # x
    ELSE 0

DbReady == Tables \subseteq db.tables /\ db.indices /\ db.seeds >= 1

Answered == req.pc \in {"respond", "done"}

\* C1: in every run of create_app the nine table creations, the index
\* creation and inicializar_dados have all completed before the first router
\* is included and before the app is returned; an application that is bound,
\* and any request it receives, sees every table, the indices and the seed data
C1_DbBeforeRouters ==
  /\ (pc \in {"routers", "health", "return", "main_guard"}
        \/ IncludedRouters(app) # <<>>) => called = DbSteps
  /\ \A m \in {"__main__", "main"} : IsBound(m) => DbReady
  /\ req.pc # "idle" => DbReady

C1_Witness ==
  req.route \in RouterNames /\ called = DbSteps /\ DbReady

\* C2: every request passes the session middleware before the CSRF
\* middleware, and both before the router
C2_SessionBeforeCsrf ==
  req.route # "none" =>
    /\ IndexOf(req.trace, "SessionMiddleware") > 0
    /\ IndexOf(req.trace, "SessionMiddleware")
         < IndexOf(req.trace, "MiddlewareProtecaoCSRF")
    /\ IndexOf(req.trace, "MiddlewareProtecaoCSRF") < IndexOf(req.trace, "router")

RegisteredHandlers ==
  {"http_exception_handler", "validation_exception_handler",
   "form_validation_exception_handler", "generic_exception_handler"}

\* C3: an exception thrown in a handler, in the router or in a middleware is
\* answered by one of the four handlers main.py registers; every request that
\* ends has a response and no exception leaves the stack unanswered
C3_EveryExceptionAnswered ==
  /\ Answered => req.response.sent
  /\ (Answered /\ req.raised # "none") =>
       /\ Len(req.handledBy) = 1
       /\ req.handledBy[1] \in RegisteredHandlers
       /\ req.response.by = req.handledBy[1]
  /\ req.pc = "unwind" => req.k >= 1

C3_Witness ==
  /\ req.pc = "done"
  /\ req.raised = "ValueError"
  /\ req.raisedAt = "MiddlewareProtecaoCSRF"
  /\ req.response.sent

\* C4: the status of every Artigo is a value of StatusArtigo
C4_StatusInEnum ==
  \A n \in 1..Len(artigos) : artigos[n].status \in StatusArtigo

\* C5: an application returned by create_app has the twelve routers, each
\* once and in the order of the list, with or without the static directory
C5_TwelveRoutersInOrder ==
  /\ pc \in {"health", "return", "main_guard"} => IncludedRouters(app) = Routers
  /\ \A m \in {"__main__", "main"} :
       IsBound(m) =>
         /\ IncludedRouters(bound[m]) = Routers
         /\ \A n \in 1..Len(Routers) : Occurrences(bound[m].routes, Routers[n]) = 1

C5_Witness ==
  pc = "serving" /\ ~static_exists /\ IsBound("main")
    /\ IncludedRouters(bound["main"]) = Routers

\* C6: when a call of the try block raises, the error is logged and the same
\* exception leaves create_app: the calls after it are not made, no router is
\* included, /health is not registered and the module's app is not bound
C6_RaiseAbortsBootstrap ==
  /\ (pc = "raised") => (exc.step # "none")
  /\ (exc.step # "none") =>
       /\ pc \in {"raised", "exited"}
       /\ \E k \in 1..Len(DbSteps) :
            DbSteps[k] = exc.step /\ called = SubSeq(DbSteps, 1, k - 1)
       /\ IncludedRouters(app) = <<>>
       /\ Occurrences(app.routes, "/health") = 0
       /\ ~IsBound(cur)
       /\ Occurrences(logged, "Erro ao preparar banco de dados: " \o exc.step) = 1
       /\ req.pc = "idle"

C6_Witness ==
  pc = "exited" /\ exc.step = "seed" /\ ~IsBound(cur) /\ Len(called) = 10

\* the handler the claim C7 names for a class
Expected(c) ==
  CASE c = "ErroValidacaoFormulario" -> "form_validation_exception_handler"
    [] c = "RequestValidationError" -> "validation_exception_handler"
    [] c \in {"StarletteHTTPException", "HTTPException"} -> "http_exception_handler"
    [] OTHER -> "generic_exception_handler"

\* C7 as stated: whatever throws it, an exception is answered by exactly one
\* handler, the one registered for its most specific class
C7_MostSpecificEverywhere ==
  (Answered /\ req.raised # "none") => req.handledBy = <<Expected(req.raised)>>

RECURSIVE Register(_, _, _)
Register(a, regs, n) ==
  IF n = 0 THEN a
  ELSE add_exception_handler(Register(a, regs, n - 1), regs[n][1], regs[n][2])

Orders ==
  {p \in [1..Len(HandlerRegs) -> 1..Len(HandlerRegs)] :
     \A x, y \in 1..Len(HandlerRegs) : p[x] = p[y] => x = y}

\* the handler that answers class c thrown inside the exception middleware
\* when the handlers are registered in the order p
ChosenUnder(p, c) ==
  LET regs == [n \in 1..Len(HandlerRegs) |-> HandlerRegs[p[n]]]
      a == Register(NewFastAPI, regs, Len(HandlerRegs))
      h == lookup_handler(MiddlewareHandlers(a), c)
  IN IF h = "none" THEN ErrorHandler(a) ELSE h

\* C7 amended: an exception thrown in a route handler or by the router is
\* answered by exactly one handler, the one registered for its most specific
\* class, whatever the registration order; an exception thrown in a user
\* middleware is answered by generic_exception_handler whatever its class
C7_MostSpecificInsideRouter ==
  (Answered /\ req.raised # "none") =>
    /\ (req.raisedAt \in {"handler", "router"}) =>
         /\ req.handledBy = <<Expected(req.raised)>>
         /\ (req.pc = "respond") =>
              (\A p \in Orders : ChosenUnder(p, req.raised) = req.handledBy[1])
    /\ (req.raisedAt \notin {"handler", "router"}) =>
         (req.handledBy = <<"generic_exception_handler">>)

C7_Witness ==
  /\ req.pc = "done"
  /\ req.raised = "HTTPException"
  /\ req.raisedAt = "handler"
  /\ req.handledBy = <<"http_exception_handler">>

SevenTables ==
  {"usuario", "configuracao", "chamado", "chamado_interacao", "chat_sala",
   "chat_participante", "chat_mensagem"}

CriandoIndices == pc = "db" /\ DbSteps[i] = "indices"

\* C8 as stated: when criar_indices() runs, all nine tables exist
C8_IndicesAfterAllTables ==
  CriandoIndices => Tables \subseteq db.tables

\* C8 amended: when criar_indices() runs, the seven tables usuario,
\* configuracao, chamado, chamado_interacao, chat_sala, chat_participante and
\* chat_mensagem exist and this run has created neither categoria nor artigo;
\* these two are created only after the indices
C8_IndicesAfterSevenTables ==
  /\ CriandoIndices =>
       /\ SevenTables \subseteq db.tables
       /\ {called[n] : n \in 1..Len(called)} = SevenTables
  /\ \A t \in {"categoria", "artigo"} :
       IndexOf(called, t) > 0 =>
         /\ IndexOf(called, "indices") > 0
         /\ IndexOf(called, "indices") < IndexOf(called, t)

C8_Witness ==
  CriandoIndices /\ runs = 1 /\ "categoria" \notin db.tables
    /\ "artigo" \notin db.tables

\* C9: started as a script, the process runs the bootstrap of create_app
\* once before it serves
C9_BootstrapOnce ==
  (mode = "script" /\ pc = "serving") => (runs = 1 /\ db.seeds = 1)

HealthStep ==
  req.pc = "handler" /\ req.route = "/health" /\ req'.pc = "respond"

HealthRouteLast(a) ==
  LET r == a.routes
  IN /\ r[Len(r)] = "/health"
     /\ Occurrences(r, "/health") = 1
     /\ SubSeq(r, Len(r) - Len(Routers), Len(r) - 1) = Routers

C10_Step ==
  /\ \A m \in {"__main__", "main"} : IsBound(m)' => HealthRouteLast(bound'[m])
  /\ HealthStep =>
       /\ req'.response = [sent |-> TRUE, by |-> "health_check",
                           body |-> <<"status", "healthy">>]
       /\ UNCHANGED <<boot, served, artigos>>
  /\ (req'.route = "/health" /\ req'.pc = "done") =>
       (req'.response.body = <<"status", "healthy">>)

\* C10: an application returned by create_app has exactly one /health route,
\* after all twelve routers, with or without the static mount; its handler
\* answers {"status": "healthy"} and changes nothing but the request
C10_Health == [][C10_Step]_vars

C10_Witness ==
  /\ req.pc = "done"
  /\ req.route = "/health"
  /\ ~static_exists
  /\ req.response.body = <<"status", "healthy">>
====
